---- MODULE Spec2Model ----
(***************************************************************************)
(* Model of torchft/utils.py: get_stream_context, record_event and         *)
(* synchronize, together with the part of the accelerator runtime they     *)
(* read and write: which accelerator is available, the runtime's current   *)
(* stream, the work queued on each stream and the events recorded.         *)
(*                                                                         *)
(* A host has at most one accelerator family (torch.accelerator's own      *)
(* assumption), so torch.cuda.is_available() and torch.xpu.is_available()  *)
(* are never both true.  A caller is one thread: it calls the three        *)
(* functions, opens and closes scopes (with ...:) in stack order, each     *)
(* scope with the context returned by its own get_stream_context call,     *)
(* submits work to the current stream, and may raise inside a scope.  The  *)
(* device completes queued work on its own.                                *)
(***************************************************************************)
EXTENDS Integers, Sequences, FiniteSets, TLC

\* ------------------------------------------------------------- bounds
MaxDepth == 2       \* open scopes at a time
MaxWork == 1        \* incomplete work items per stream
MaxEvents == 1      \* events recorded in a behaviour

\* ------------------------------------------------------------- values
\* stream.device.type of the streams a caller may hold; "mtia" stands for
\* every accelerator family the shim has no branch for.
DeviceTypes == {"cuda", "xpu", "mtia"}
\* Streams of one device: 0 is its default stream.
StreamIds == {0, 1}
Streams == [type : DeviceTypes, id : StreamIds]
\* Python's None as a stream argument, and "no current stream" when no
\* accelerator is present.
None == [type |-> "none", id |-> 0]
Args == Streams \cup {None}
\* What the host offers: no accelerator, or exactly one family.
Accelerators == {"none"} \cup DeviceTypes

VARIABLES
  accel,      \* the accelerator family available on this host ("none": none)
  cur,        \* the runtime's current stream
  pending,    \* pending[i]: incomplete work items on the accelerator's stream i
  events,     \* the events recorded so far, in order
  held,       \* <<>> or <<c>>: a context returned and not (yet) entered
  stack,      \* the open scopes, outermost first
  exc,        \* the exception propagating in the caller: "none", "body", "runtime"
  pc,         \* "idle", or "sync" while the caller is blocked in synchronize()
  syncOn,     \* the stream synchronize() is blocked on
  base,       \* history: the stream that was current before any scope
  last        \* history: the operation that acted last

vars == <<accel, cur, pending, events, held, stack, exc, pc, syncOn, base,
          last>>

\* ---------------------------------------------------- runtime queries
cuda_is_available == accel = "cuda"
xpu_is_available == accel = "xpu"
accelerator_is_available == accel # "none"
\* torch.accelerator.current_stream(): the current stream; it raises when
\* there is no accelerator.
current_stream == cur
\* The accelerator's default stream, current when the program starts.
DefaultStream == [type |-> accel, id |-> 0]
current_stream_raises == accel = "none"

\* -------------------------------------------------- context managers
\* contextlib.nullcontext(): enter and exit do nothing.
nullcontext == [kind |-> "null", stream |-> None]
\* torch.cuda.stream(s) / torch.xpu.stream(s): the family's stream context.
cuda_stream(s) == [kind |-> "cuda", stream |-> s]
xpu_stream(s) == [kind |-> "xpu", stream |-> s]

\* __enter__: a stream context saves the current stream and makes its own
\* stream current; it raises when its family's runtime is absent.
StreamContextEnter(ctx) ==
  IF ctx.kind = "null"
  THEN [cur |-> cur, saved |-> None, err |-> FALSE]
  ELSE IF ctx.kind # accel
  THEN [cur |-> cur, saved |-> None, err |-> TRUE]
  ELSE [cur |-> ctx.stream, saved |-> cur, err |-> FALSE]

\* Variant: restores the stream only on a normal exit.
StreamContextExit_SkipOnException(frame, raised) ==
  IF frame.ctx.kind = "null" \/ raised
  THEN [cur |-> cur, suppress |-> FALSE]
  ELSE [cur |-> frame.saved, suppress |-> FALSE]

\* Variant: the exit makes the default stream current instead of the saved
\* one.
StreamContextExit_RestoresDefault(frame, raised) ==
  IF frame.ctx.kind = "null"
  THEN [cur |-> cur, suppress |-> FALSE]
  ELSE [cur |-> DefaultStream, suppress |-> FALSE]

\* __exit__(exc_type, exc, tb): a stream context makes the saved stream
\* current again, whether or not an exception (raised) is passed in; neither
\* kind swallows the exception (both return None).
StreamContextExit(frame, raised) ==
  IF frame.ctx.kind = "null"
  THEN [cur |-> cur, suppress |-> FALSE]
  ELSE [cur |-> frame.saved, suppress |-> FALSE]

\* ------------------------------------------------------------ the shim
\* Variant: the "xpu" branch returns the CUDA stream context.
get_stream_context_XpuAsCuda(stream) ==
  IF stream # None
  THEN LET device_type == stream.type IN
       IF device_type = "cuda" /\ cuda_is_available
       THEN cuda_stream(stream)
       ELSE IF device_type = "xpu" /\ xpu_is_available
       THEN cuda_stream(stream)
       ELSE nullcontext
  ELSE nullcontext

\* Variant: the branches do not ask whether the family is available.
get_stream_context_NoAvailCheck(stream) ==
  IF stream # None
  THEN LET device_type == stream.type IN
       IF device_type = "cuda"
       THEN cuda_stream(stream)
       ELSE IF device_type = "xpu"
       THEN xpu_stream(stream)
       ELSE nullcontext
  ELSE nullcontext

\* Variant: None selects the available family's default stream.
get_stream_context_NoneAsDefault(stream) ==
  IF stream # None
  THEN LET device_type == stream.type IN
       IF device_type = "cuda" /\ cuda_is_available
       THEN cuda_stream(stream)
       ELSE IF device_type = "xpu" /\ xpu_is_available
       THEN xpu_stream(stream)
       ELSE nullcontext
  ELSE IF cuda_is_available THEN cuda_stream(DefaultStream)
  ELSE IF xpu_is_available THEN xpu_stream(DefaultStream)
  ELSE nullcontext

get_stream_context(stream) ==
  IF stream # None
  THEN LET device_type == stream.type IN
       IF device_type = "cuda" /\ cuda_is_available
       THEN cuda_stream(stream)
       ELSE IF device_type = "xpu" /\ xpu_is_available
       THEN xpu_stream(stream)
       ELSE nullcontext
  ELSE nullcontext

\* Variant: the last branch records a generic event instead of passing.
record_event_GenericFallback ==
  IF accelerator_is_available
  THEN LET stream == current_stream IN
       IF stream.type = "cuda"
       THEN [rec |-> <<[stream |-> stream, interprocess |-> TRUE]>>,
             err |-> current_stream_raises]
       ELSE [rec |-> <<[stream |-> stream, interprocess |-> FALSE]>>,
             err |-> current_stream_raises]
  ELSE [rec |-> <<>>, err |-> FALSE]

\* Variant: the event is recorded on the default stream, not the current one.
record_event_OnDefaultStream ==
  IF accelerator_is_available
  THEN LET stream == DefaultStream IN
       IF stream.type = "cuda"
       THEN [rec |-> <<[stream |-> stream, interprocess |-> TRUE]>>,
             err |-> current_stream_raises]
       ELSE IF stream.type = "xpu"
       THEN [rec |-> <<[stream |-> stream, interprocess |-> FALSE]>>,
             err |-> current_stream_raises]
       ELSE [rec |-> <<>>, err |-> current_stream_raises]
  ELSE [rec |-> <<>>, err |-> FALSE]

\* record_event(): the events it records (none or one) and whether it raises.
record_event ==
  IF accelerator_is_available
  THEN LET stream == current_stream IN
       IF stream.type = "cuda"
       THEN [rec |-> <<[stream |-> stream, interprocess |-> TRUE]>>,
             err |-> current_stream_raises]
       ELSE IF stream.type = "xpu"
       THEN [rec |-> <<[stream |-> stream, interprocess |-> FALSE]>>,
             err |-> current_stream_raises]
       ELSE [rec |-> <<>>, err |-> current_stream_raises]
  ELSE [rec |-> <<>>, err |-> FALSE]

\* Variant: only "cuda" and "xpu" streams are waited for.
synchronize_CudaXpuOnly ==
  IF accelerator_is_available /\ current_stream.type \in {"cuda", "xpu"}
  THEN [wait |-> {current_stream}, err |-> current_stream_raises]
  ELSE [wait |-> {}, err |-> FALSE]

\* Variant: the availability of an accelerator is not asked.
synchronize_NoAvailCheck ==
  [wait |-> {current_stream}, err |-> current_stream_raises]

\* synchronize(): the streams it waits for (none or one) and whether it raises.
synchronize ==
  IF accelerator_is_available
  THEN [wait |-> {current_stream}, err |-> current_stream_raises]
  ELSE [wait |-> {}, err |-> FALSE]

\* ------------------------------------------------------------- history
\* The case of get_stream_context's argument: None, a "cuda"/"xpu" stream
\* whose family is available, or any other stream.
NativeCase(a) == a # None /\ a.type \in {"cuda", "xpu"} /\ a.type = accel
ArgCase(a) ==
  IF a = None THEN "none" ELSE IF NativeCase(a) THEN "native" ELSE "noop"

NoFrame == <<>>
\* op: the operation; frame: the scope an exit closed; on: the stream it
\* acted on; n: a count it saw.
Did(op) == [op |-> op, on |-> None, frame |-> NoFrame, n |-> 0]

\* ---------------------------------------------------------------- Init
Init ==
  /\ accel \in Accelerators
  /\ cur = IF accel = "none" THEN None ELSE DefaultStream
  /\ pending = [i \in StreamIds |-> 0]
  /\ events = <<>>
  /\ held = <<>>
  /\ stack = <<>>
  /\ exc = "none"
  /\ pc = "idle"
  /\ syncOn = None
  /\ base = cur
  /\ last = Did("other")

Running == exc = "none" /\ pc = "idle"

\* ------------------------------------------------------------- actions
\* Variant: the call itself makes an available "cuda"/"xpu" stream current
\* (set_stream in place of the scoped stream context).
GetStreamContext_SetsStream(arg) ==
  /\ Running
  /\ held' = <<[arg |-> arg, ctx |-> get_stream_context(arg)]>>
  /\ cur' = IF NativeCase(arg) THEN arg ELSE cur
  /\ last' = Did("call")
  /\ UNCHANGED <<accel, pending, events, stack, exc, pc, syncOn, base>>

\* c = get_stream_context(arg): the returned context is held, not entered.
GetStreamContext(arg) ==
  /\ Running
  /\ held' = <<[arg |-> arg, ctx |-> get_stream_context(arg)]>>
  /\ last' = Did("call")
  /\ UNCHANGED <<accel, cur, pending, events, stack, exc, pc, syncOn, base>>

\* with c: ... -- c.__enter__() on the held context opens a scope.
Enter ==
  /\ Running
  /\ held # <<>>
  /\ Len(stack) < MaxDepth
  /\ LET c == held[1]
         r == StreamContextEnter(c.ctx)
     IN IF r.err
        THEN /\ exc' = "runtime"
             /\ UNCHANGED <<cur, stack>>
        ELSE /\ cur' = r.cur
             /\ stack' = Append(stack, [case |-> ArgCase(c.arg),
                                        ctx |-> c.ctx,
                                        saved |-> r.saved,
                                        before |-> cur])
             /\ exc' = exc
  /\ held' = <<>>
  /\ last' = Did("enter")
  /\ UNCHANGED <<accel, pending, events, pc, syncOn, base>>

\* The innermost scope ends, normally or with the exception that is
\* propagating: c.__exit__(...).
Exit ==
  /\ pc = "idle"
  /\ stack # <<>>
  /\ LET frame == stack[Len(stack)]
         r == StreamContextExit(frame, exc # "none")
     IN /\ cur' = r.cur
        /\ exc' = IF r.suppress THEN "none" ELSE exc
        /\ last' = [Did("exit") EXCEPT !.frame = <<frame>>,
                                       !.n = IF exc = "none" THEN 0 ELSE 1]
  /\ stack' = SubSeq(stack, 1, Len(stack) - 1)
  /\ UNCHANGED <<accel, pending, events, held, pc, syncOn, base>>

\* The body of the innermost scope raises.
Raise ==
  /\ Running
  /\ stack # <<>>
  /\ exc' = "body"
  /\ last' = Did("other")
  /\ UNCHANGED <<accel, cur, pending, events, held, stack, pc, syncOn, base>>

\* An enclosing try of the caller handles the exception.
Catch ==
  /\ exc # "none"
  /\ exc' = "none"
  /\ last' = Did("other")
  /\ UNCHANGED <<accel, cur, pending, events, held, stack, pc, syncOn, base>>

\* The caller queues one piece of work: it goes to the current stream.
Submit ==
  /\ Running
  /\ accelerator_is_available
  /\ pending[cur.id] < MaxWork
  /\ pending' = [pending EXCEPT ![cur.id] = @ + 1]
  /\ last' = [Did("submit") EXCEPT !.on = cur]
  /\ UNCHANGED <<accel, cur, events, held, stack, exc, pc, syncOn, base>>

\* The device finishes one piece of work of one stream (the caller may be
\* blocked in synchronize() meanwhile, whose history entry is kept).
Complete(i) ==
  /\ pending[i] > 0
  /\ pending' = [pending EXCEPT ![i] = @ - 1]
  /\ last' = IF pc = "sync" THEN last ELSE Did("other")
  /\ UNCHANGED <<accel, cur, events, held, stack, exc, pc, syncOn, base>>

\* record_event()
RecordEvent ==
  /\ Running
  /\ Len(events) < MaxEvents
  /\ LET r == record_event
     IN /\ events' = IF r.err THEN events ELSE events \o r.rec
        /\ exc' = IF r.err THEN "runtime" ELSE exc
  /\ last' = [Did("record") EXCEPT !.n = Len(events)]
  /\ UNCHANGED <<accel, cur, pending, held, stack, pc, syncOn, base>>

\* synchronize() is called: it returns at once when it waits for nothing,
\* and otherwise blocks in Stream.synchronize().
Synchronize ==
  /\ Running
  /\ LET r == synchronize
     IN IF r.err
        THEN /\ exc' = "runtime"
             /\ last' = Did("sync")
             /\ UNCHANGED <<pc, syncOn>>
        ELSE IF r.wait = {}
        THEN /\ last' = Did("sync")
             /\ UNCHANGED <<exc, pc, syncOn>>
        ELSE /\ pc' = "sync"
             /\ syncOn' = CHOOSE s \in r.wait : TRUE
             /\ last' = [Did("block") EXCEPT
                           !.n = pending[(CHOOSE s \in r.wait : TRUE).id]]
             /\ exc' = exc
  /\ UNCHANGED <<accel, cur, pending, events, held, stack, base>>

\* Stream.synchronize() returns: the stream has no incomplete work left.
SyncReturn ==
  /\ pc = "sync"
  /\ pending[syncOn.id] = 0
  /\ pc' = "idle"
  /\ syncOn' = None
  /\ last' = [Did("sync") EXCEPT !.on = syncOn, !.n = last.n]
  /\ UNCHANGED <<accel, cur, pending, events, held, stack, exc, base>>

Next ==
  \/ \E arg \in Args : GetStreamContext(arg)
  \/ Enter
  \/ Exit
  \/ Raise
  \/ Catch
  \/ Submit
  \/ \E i \in StreamIds : Complete(i)
  \/ RecordEvent
  \/ Synchronize
  \/ SyncReturn

Spec == Init /\ [][Next]_vars

\* ============================================================== claims
Top == stack[Len(stack)]
Popped == last.frame[1]
\* The stream a scope's body runs on: the scope's own stream for a "cuda" or
\* "xpu" stream whose family is available, else the one current at its enter.
Body(f) == IF f.case = "native" THEN f.ctx.stream ELSE f.before
\* The stream that is to be current: the innermost open scope's, else the
\* one current before any scope.
Target == IF stack = <<>> THEN base ELSE Body(Top)

\* C1: for a "cuda" stream while CUDA is available (likewise "xpu"),
\* get_stream_context returns that family's stream context wrapping the
\* stream; while its scope is innermost the stream is the current stream,
\* work submitted there goes to it, and the exit makes current again the
\* stream that was current immediately before the enter.
C1_NativeContextScopesStream ==
  /\ (held # <<>> /\ NativeCase(held[1].arg)) =>
        held[1].ctx = [kind |-> held[1].arg.type, stream |-> held[1].arg]
  /\ (stack # <<>> /\ Top.case = "native") =>
        /\ cur = Top.ctx.stream
        /\ last.op = "submit" => last.on = Top.ctx.stream
  /\ (last.op = "exit" /\ Popped.case = "native") => cur = Popped.before

\* A "cuda" scope entered while another stream was current has had work
\* submitted inside and has been exited.
C1_Witness ==
  /\ accel = "cuda"
  /\ last.op = "exit" /\ Popped.case = "native"
  /\ Popped.before # Popped.ctx.stream
  /\ cur = Popped.before
  /\ pending[Popped.ctx.stream.id] > 0

\* C2: for a stream that is neither "cuda" nor "xpu", or whose family is
\* unavailable, get_stream_context returns the no-op context, no error is
\* signalled by the call, the enter or the exit, and the current stream
\* during the scope and after its exit is the one current before the enter.
C2_UnsupportedStreamIsNoOp ==
  /\ (held # <<>> /\ ArgCase(held[1].arg) = "noop") =>
        held[1].ctx = nullcontext
  /\ last.op \in {"call", "enter", "exit"} => exc # "runtime"
  /\ (stack # <<>> /\ Top.case = "noop") => cur = Top.before
  /\ (last.op = "exit" /\ Popped.case = "noop") => cur = Popped.before

\* On a host with an accelerator, the scope of a stream of another family
\* has been entered inside a scope that changed the stream, and exited.
C2_Witness ==
  /\ accel \in {"cuda", "xpu"}
  /\ last.op = "exit" /\ Popped.case = "noop"
  /\ Popped.ctx = nullcontext
  /\ stack # <<>> /\ Top.case = "native" /\ cur = Top.ctx.stream
  /\ cur # base

\* In every state: None gets the no-op context, and the current stream
\* during its scope and after its exit is the one current before the enter.
C3_NoneInv ==
  /\ (held # <<>> /\ held[1].arg = None) => held[1].ctx = nullcontext
  /\ (stack # <<>> /\ Top.case = "none") => cur = Top.before
  /\ (last.op = "exit" /\ Popped.case = "none") => cur = Popped.before
\* The enter step and the exit step of a scope opened with None.
C3_NoneStep ==
  (\/ last'.op = "enter" /\ held # <<>> /\ held[1].arg = None
   \/ last'.op = "exit" /\ stack # <<>> /\ Top.case = "none")
  => UNCHANGED <<accel, cur, pending, events, exc, pc, syncOn>>
\* C3: get_stream_context(None) returns the no-op context on every host;
\* the enter and the exit of its scope change neither the current stream
\* nor the queued work, the recorded events or the exception state.
C3_NoneIsNoOp == [](C3_NoneInv) /\ [][C3_NoneStep]_vars

\* With an accelerator present and a non-default stream current, a None
\* scope has been entered and exited.
C3_Witness ==
  /\ accelerator_is_available
  /\ last.op = "exit" /\ Popped.case = "none"
  /\ cur # base /\ cur = Popped.before

\* C4: with an accelerator of any family, synchronize() blocks on the
\* current stream and has returned only when that stream has no incomplete
\* work.
C4_SynchronizeWaits ==
  /\ pc = "sync" => syncOn = cur
  /\ (last.op = "sync" /\ accelerator_is_available) =>
        /\ last.on = cur
        /\ pending[cur.id] = 0

\* On an accelerator that is neither "cuda" nor "xpu", synchronize() was
\* called with work queued on the current stream and has returned.
C4_Witness ==
  /\ accel = "mtia"
  /\ last.op = "sync" /\ last.n > 0 /\ last.on = cur

\* C5: when the body of a scope raises, the exit makes current the stream
\* that was current before the enter, as a normal exit does, and the
\* exception keeps propagating.
C5_ExceptionExitRestores ==
  (last.op = "exit" /\ last.n = 1) =>
     /\ cur = Popped.before
     /\ exc = "body"

\* A scope that changed the current stream has been left by an exception.
C5_Witness ==
  /\ last.op = "exit" /\ last.n = 1
  /\ Popped.case = "native" /\ Popped.before # Popped.ctx.stream
  /\ exc = "body"

\* C6: with no accelerator, no call raises, no event is recorded,
\* synchronize() never blocks and the runtime state stays as it was.
C6_NoAcceleratorNoEffect ==
  accel = "none" =>
     /\ exc # "runtime"
     /\ events = <<>>
     /\ pc = "idle"
     /\ cur = None
     /\ \A i \in StreamIds : pending[i] = 0
     /\ \A i \in 1..Len(stack) : stack[i].ctx = nullcontext

\* With no accelerator, record_event() has been called inside the scope of
\* a "cuda" stream.
C6_Witness ==
  /\ accel = "none"
  /\ last.op = "record"
  /\ stack # <<>> /\ Top.case = "noop"

\* The events record_event() is to append, by the current stream's family.
C7_Expected ==
  IF cur.type = "cuda" THEN <<[stream |-> cur, interprocess |-> TRUE]>>
  ELSE IF cur.type = "xpu" THEN <<[stream |-> cur, interprocess |-> FALSE]>>
  ELSE <<>>
\* A record_event() step with an accelerator present.
C7_RecordStep ==
  (last'.op = "record" /\ accelerator_is_available) =>
     /\ events' = events \o C7_Expected
     /\ exc' = "none"
C8_NestedScopesRestore ==
  /\ last.op = "exit" => cur = Popped.before
  /\ cur = Target
  /\ \A i \in 1..Len(stack) :
        stack[i].before = IF i = 1 THEN base ELSE Body(stack[i - 1])

\* An inner scope on one stream has been exited inside an outer scope on
\* another stream.
C8_Witness ==
  /\ last.op = "exit" /\ Popped.case = "native"
  /\ stack # <<>> /\ Top.case = "native"
  /\ Popped.ctx.stream # Top.ctx.stream
  /\ Top.before # Top.ctx.stream
  /\ cur = Top.ctx.stream

\* C9: record_event() records on, and synchronize() waits for, the stream
\* of the innermost open "cuda"/"xpu" scope, and the stream current before
\* any scope once every scope has exited.
C9_ScopedRecordAndSync ==
  /\ (last.op = "record" /\ accel \in {"cuda", "xpu"}) =>
        /\ Len(events) = last.n + 1
        /\ events[Len(events)].stream = Target
  /\ pc = "sync" => syncOn = Target
  /\ (last.op = "sync" /\ accelerator_is_available) =>
        /\ last.on = Target
        /\ pending[Target.id] = 0

\* Inside a scope on a non-default stream, synchronize() was called with
\* work queued on that stream and has returned, while work is still queued
\* on the stream that was current before the scope.
C9_Witness ==
  /\ stack # <<>> /\ Top.case = "native"
  /\ Top.before # Top.ctx.stream
  /\ last.op = "sync" /\ last.n > 0 /\ last.on = Top.ctx.stream
  /\ pending[Top.before.id] > 0

\* A step that changes the current stream is an enter or an exit.
C10_Step == cur' # cur => last'.op \in {"enter", "exit"}
\* C10: the current stream changes only when a scope is entered or exited:
\* a call of get_stream_context, record_event() or synchronize() leaves it
\* as it was.
C10_OnlyScopesChangeStream == [][C10_Step]_vars

\* get_stream_context was called with an available "cuda" stream that is
\* not the current stream, and was not entered.
C10_Witness ==
  /\ last.op = "call"
  /\ held # <<>> /\ NativeCase(held[1].arg)
  /\ held[1].arg # cur

====
